---- MODULE Spec2Model ----
(***************************************************************************)
(* Model of AIAgentSystem (src/main.py): the two model clients, the turn   *)
(* planner, the prompt builder, the conversation loop and the summarizer.  *)
(*                                                                         *)
(* A text is a sequence of tokens (strings).  An f-string is the           *)
(* concatenation of its literal pieces and its embedded values, so that a  *)
(* prompt really contains the task and the transcript it embeds.  "s1 is a *)
(* substring of s2" is "the tokens of s1 occur contiguously in s2".        *)
(*                                                                         *)
(* The remote services are the environment: every call of a client draws   *)
(* one outcome of the SDK call / HTTP round trip (text, exception, JSON    *)
(* body of some shape).  A model call is one step of the orchestrator: the *)
(* step that receives the answer of the call in flight runs the code up to *)
(* the next call and leaves that call in flight.                           *)
(***************************************************************************)
EXTENDS Integers, Sequences, FiniteSets, TLC

VARIABLES
    conversation,   \* self.conversation: the transcript, a sequence of texts
    pc,             \* position of the caller: "idle", or inside collaborate:
                    \* "plan", "A", "B", "sum" (the call awaited), "raised"
    task,           \* collaborate's argument
    response,       \* determine_conversation_length's local `response`
    max_turns,      \* collaborate's local max_turns (0: not yet assigned)
    turn,           \* the turn being played (1, then the loop variable)
    gemini_prompt,  \* collaborate's local gemini_prompt
    groq_prompt,    \* collaborate's local groq_prompt
    pending,        \* the model calls in flight: records [to, prompt]
    result,         \* <<>>, or <<r>> with r the dict collaborate returned
    run,            \* history: number of collaborate calls on the instance
    calls,          \* history: the model calls of the current run, in order
    origin,         \* history: for each transcript entry, who produced it
    unusual         \* history: outcomes drawn so far other than the plain one

vars == <<conversation, pc, task, response, max_turns, turn, gemini_prompt,
          groq_prompt, pending, result, run, calls, origin, unusual>>

---------------------------------------------------------------------------
(* Bounds of the model.                                                    *)

\* collaborate calls made on one AIAgentSystem instance
MaxRuns == 2
\* outcomes other than the plain answer that the services give in total
MaxUnusual == 1
\* length (in characters) of the planner answers enumerated by SpecPlanner
MaxPlanLen == 3

(* Program constants of determine_conversation_length.                     *)
MinTurns == 3
MaxTurns == 10
DefaultTurns == 5

---------------------------------------------------------------------------
(* Python values used below.                                               *)

\* the outcome of evaluating a call: a returned value or a raised exception
Return(v) == [raised |-> FALSE, value |-> v]
Raise(msg) == [raised |-> TRUE, value |-> msg]

RECURSIVE Join(_, _)
\* sep.join(parts), parts a sequence of texts
Join(sep, parts) ==
    IF parts = <<>> THEN <<>>
    ELSE IF Len(parts) = 1 THEN parts[1]
    ELSE parts[1] \o sep \o Join(sep, Tail(parts))

\* s1 in s2, for two texts
Contains(s2, s1) ==
    \E i \in 0..(Len(s2) - Len(s1)) : SubSeq(s2, i + 1, i + Len(s1)) = s1

StartsWith(s, prefix) ==
    Len(s) >= Len(prefix) /\ SubSeq(s, 1, Len(prefix)) = prefix

DigitTokens == <<"0", "1", "2", "3", "4", "5", "6", "7", "8", "9">>

IsDigit(c) == \E d \in 1..Len(DigitTokens) : DigitTokens[d] = c
DigitValue(c) == (CHOOSE d \in 1..Len(DigitTokens) : DigitTokens[d] = c) - 1
IsSpace(c) == c \in {" ", "\n", "\t"}

RECURSIVE Str(_)
\* str(n) of a natural number, as the f-strings render turn numbers
Str(n) ==
    IF n < Len(DigitTokens) THEN <<DigitTokens[n + 1]>>
    ELSE Str(n \div Len(DigitTokens)) \o <<DigitTokens[(n % Len(DigitTokens)) + 1]>>

RECURSIVE LStrip(_)
LStrip(s) == IF s # <<>> /\ IsSpace(Head(s)) THEN LStrip(Tail(s)) ELSE s

RECURSIVE RStrip(_)
RStrip(s) ==
    IF s # <<>> /\ IsSpace(s[Len(s)]) THEN RStrip(SubSeq(s, 1, Len(s) - 1)) ELSE s

\* str.strip()
Strip(s) == LStrip(RStrip(s))

RECURSIVE DigitsValue(_, _)
\* the value of a digit string with grouping underscores, most significant first
DigitsValue(s, acc) ==
    IF s = <<>> THEN acc
    ELSE IF Head(s) = "_" THEN DigitsValue(Tail(s), acc)
    ELSE DigitsValue(Tail(s), acc * Len(DigitTokens) + DigitValue(Head(s)))

\* int(s) for a str s: surrounding whitespace, an optional sign, decimal digits
\* with single underscores between digits; anything else raises ValueError
PyInt(s) ==
    LET t == Strip(s)
        signed == t # <<>> /\ Head(t) \in {"+", "-"}
        body == IF signed THEN Tail(t) ELSE t
        wellFormed ==
            /\ body # <<>>
            /\ IsDigit(body[1])
            /\ IsDigit(body[Len(body)])
            /\ \A i \in 1..Len(body) : IsDigit(body[i]) \/ body[i] = "_"
            /\ \A i \in 1..(Len(body) - 1) : ~(body[i] = "_" /\ body[i + 1] = "_")
    IN  IF ~wellFormed THEN Raise(<<"invalid literal for int() with base 10">>)
        ELSE IF signed /\ Head(t) = "-" THEN Return(0 - DigitsValue(body, 0))
        ELSE Return(DigitsValue(body, 0))

Max(a, b) == IF a >= b THEN a ELSE b
Min(a, b) == IF a <= b THEN a ELSE b

---------------------------------------------------------------------------
(* Model Client A: gemini_agent.                                           *)

\* What generate_content does for one call: it returns a response whose
\* .text is a text, or it raises (transport, authentication, SDK error).
GeminiSdk(o) ==
    CASE o = "ok"        -> Return(<<"Here are my thoughts on the task.">>)
      [] o = "consensus" -> Return(<<"We have reached consensus; nothing more to add.">>)
      [] o = "echo_continue" ->
            Return(<<"Continue the collaborative discussion, building on what has been shared so far.">>)
      [] o = "raises"    -> Raise(<<"503 UNAVAILABLE">>)
      [] o = "n4"        -> Return(<<"4">>)
      [] o = "n1"        -> Return(<<" ", "1", "\n">>)
      [] o = "n15"       -> Return(<<"1", "5">>)

\* the outcomes drawn for the calls of a turn and for the summary call
GeminiOutcomes == {"ok", "consensus", "echo_continue", "raises"}
\* the outcomes drawn for the planning call of a run
PlannerOutcomes == {"n4", "n1", "n15", "raises"}

\* gemini_agent(prompt), the SDK call having outcome sdk
gemini_agent(prompt, sdk) ==
    IF sdk.raised
    THEN Return(<<"Gemini Agent Error: ">> \o sdk.value)
    ELSE Return(sdk.value)

---------------------------------------------------------------------------
(* Model Client B: groq_agent.                                             *)

\* JSON values: [t |-> type, keys |-> the keys of an object, v |-> the value]
JNull == [t |-> "null", keys |-> {}, v |-> <<>>]
JStr(s) == [t |-> "str", keys |-> {}, v |-> s]
JArr(a) == [t |-> "arr", keys |-> {}, v |-> a]
JObj(ks, f) == [t |-> "obj", keys |-> ks, v |-> f]
JEmptyObj == JObj({}, <<>>)

GroqContent == <<"Here is my technical perspective.">>

\* What the HTTP round trip does for one call: requests.post raises, or
\* response.json() raises, or the body is the JSON value `body`, of which
\* `repr` is the text str() gives.
GroqHttp(o) ==
    CASE o = "ok" ->
            [post |-> Return(<<>>),
             body |-> Return(JObj({"choices"}, [choices |-> JArr(<<
                        JObj({"message"}, [message |->
                            JObj({"content"}, [content |-> JStr(GroqContent)])])>>)])),
             repr |-> <<"{'choices': [{'message': {'content': ...}}]}">>]
      [] o = "post_raises" ->
            [post |-> Raise(<<"HTTPSConnectionPool: Max retries exceeded">>),
             body |-> Return(JNull), repr |-> <<>>]
      [] o = "not_json" ->
            [post |-> Return(<<>>),
             body |-> Raise(<<"Expecting value: line 1 column 1 (char 0)">>),
             repr |-> <<>>]
      [] o = "no_choices" ->
            [post |-> Return(<<>>),
             body |-> Return(JObj({"error"}, [error |-> JStr(<<"Invalid API Key">>)])),
             repr |-> <<"{'error': 'Invalid API Key'}">>]
      [] o = "empty_choices" ->
            [post |-> Return(<<>>),
             body |-> Return(JObj({"choices"}, [choices |-> JArr(<<>>)])),
             repr |-> <<"{'choices': []}">>]
      [] o = "null_choices" ->
            [post |-> Return(<<>>),
             body |-> Return(JObj({"choices"}, [choices |-> JNull])),
             repr |-> <<"{'choices': None}">>]
      [] o = "no_message" ->
            [post |-> Return(<<>>),
             body |-> Return(JObj({"choices"}, [choices |-> JArr(<<JEmptyObj>>)])),
             repr |-> <<"{'choices': [{}]}">>]
      [] o = "no_content" ->
            [post |-> Return(<<>>),
             body |-> Return(JObj({"choices"}, [choices |->
                        JArr(<<JObj({"message"}, [message |-> JEmptyObj])>>)])),
             repr |-> <<"{'choices': [{'message': {}}]}">>]
      [] o = "array_body" ->
            [post |-> Return(<<>>),
             body |-> Return(JArr(<<>>)),
             repr |-> <<"[]">>]

GroqOutcomes == {"ok", "post_raises", "not_json", "no_choices", "empty_choices",
                 "null_choices", "no_message", "no_content", "array_body"}
\* the outcomes in which the call fails: no generated text comes back
GroqFailures == GroqOutcomes \ {"ok"}

\* key in container
PyIn(key, j) ==
    CASE j.t = "obj" -> Return(key \in j.keys)
      [] j.t = "arr" -> Return(\E i \in 1..Len(j.v) : j.v[i] = JStr(<<key>>))
      [] j.t = "str" -> Return(Contains(j.v, <<key>>))
      [] OTHER       -> Raise(<<"argument of type 'NoneType' is not iterable">>)

\* len(x)
PyLen(j) ==
    CASE j.t = "obj" -> Return(Cardinality(j.keys))
      [] j.t = "arr" -> Return(Len(j.v))
      [] j.t = "str" -> Return(Len(j.v))
      [] OTHER       -> Raise(<<"object of type 'NoneType' has no len()">>)

\* container[key] for a string key
PyGetKey(j, key) ==
    CASE j.t = "obj" ->
            IF key \in j.keys THEN Return(j.v[key]) ELSE Raise(<<"'", key, "'">>)
      [] j.t = "arr" -> Raise(<<"list indices must be integers or slices, not str">>)
      [] j.t = "str" -> Raise(<<"string indices must be integers">>)
      [] OTHER       -> Raise(<<"'NoneType' object is not subscriptable">>)

\* container[0]
PyGetFirst(j) ==
    CASE j.t = "arr" ->
            IF Len(j.v) > 0 THEN Return(j.v[1]) ELSE Raise(<<"list index out of range">>)
      [] j.t = "str" ->
            IF Len(j.v) > 0 THEN Return(JStr(<<j.v[1]>>))
            ELSE Raise(<<"string index out of range">>)
      [] j.t = "obj" -> Raise(<<"0">>)
      [] OTHER       -> Raise(<<"'NoneType' object is not subscriptable">>)

\* response_data['choices'][0]['message']['content']
GroqExtract(data) ==
    LET choices == PyGetKey(data, "choices")
        first == IF choices.raised THEN choices ELSE PyGetFirst(choices.value)
        message == IF first.raised THEN first ELSE PyGetKey(first.value, "message")
        content == IF message.raised THEN message ELSE PyGetKey(message.value, "content")
    IN  IF content.raised THEN content ELSE Return(content.value.v)

\* the body of groq_agent's try block, the round trip having outcome http
GroqTry(http) ==
    IF http.post.raised THEN http.post
    ELSE IF http.body.raised THEN http.body
    ELSE LET data == http.body.value
             has == PyIn("choices", data)
             choices == PyGetKey(data, "choices")
             n == IF choices.raised THEN choices ELSE PyLen(choices.value)
             unexpected == Return(<<"Groq Agent Error: ", "Unexpected response format - ">>
                                  \o http.repr)
         IN  IF has.raised THEN has
             ELSE IF ~has.value THEN unexpected
             ELSE IF n.raised THEN n
             ELSE IF n.value > 0 THEN GroqExtract(data)
             ELSE unexpected

\* groq_agent with the explicit format check only, no except clause
groq_agent_noExcept(prompt, http) == GroqTry(http)

\* groq_agent(prompt), the HTTP round trip having outcome http
groq_agent(prompt, http) ==
    LET r == GroqTry(http)
    IN  IF r.raised THEN Return(<<"Groq Agent Error: ">> \o r.value) ELSE r

---------------------------------------------------------------------------
(* Turn Planner.                                                           *)

PlannerPrompt(t) ==
    <<"You are tasked with determining the optimal number of conversation turns needed for two AI agents to solve this task: \"">>
    \o t
    \o <<"\" Consider: 1. Task complexity 2. Need for brainstorming 3. Need for refinement. Return only a number between 3 and 10 representing the optimal number of turns.">>

\* the clamp without its upper bound: max(3, turns)
determine_conversation_length_noUpper(resp) ==
    LET turns == PyInt(resp)
    IN  IF turns.raised THEN Return(DefaultTurns)
        ELSE Return(Max(MinTurns, turns.value))

\* the parse without the except clause: the ValueError propagates
determine_conversation_length_noExcept(resp) ==
    LET turns == PyInt(resp)
    IN  IF turns.raised THEN turns
        ELSE Return(Max(MinTurns, Min(MaxTurns, turns.value)))

\* determine_conversation_length from the planning call's answer on: the
\* try block (int of the stripped answer, clamped) and the bare except
determine_conversation_length(resp) ==
    LET turns == PyInt(resp)
    IN  IF turns.raised THEN Return(DefaultTurns)
        ELSE Return(Max(MinTurns, Min(MaxTurns, turns.value)))

---------------------------------------------------------------------------
(* Prompt Builder.                                                         *)

ContinueInstruction ==
    "Continue the collaborative discussion, building on what has been shared so far."
ConcludeInstruction(other) ==
    IF other = "Agent 2"
    THEN "As this is the final turn, work with Agent 2 to conclude and present a final solution or recommendation."
    ELSE "As this is the final turn, work with Agent 1 to conclude and present a final solution or recommendation."

generate_initial_prompts(t) ==
    [gemini |->
        <<"You are Agent 1 (Gemini 2.5 Pro), working collaboratively with Agent 2 (Deepseek Llama 70B) on this task: \"">>
        \o t
        \o <<"\" Your specialties are: creative thinking, structured planning, multiple perspectives. Begin by introducing yourself to Agent 2 and outline your initial thoughts.">>,
     groq |->
        <<"You are Agent 2 (Deepseek Llama 70B), working collaboratively with Agent 1 (Gemini 2.5 Pro) on this task: \"">>
        \o t
        \o <<"\" Your specialties are: detailed analysis, technical precision, pragmatic refinement. Wait for Agent 1's initial thoughts, then respond with your specialized perspective.">>]

\* the parity test inverted
Label_swapped(i) == IF i % 2 = 1 THEN "Agent 1 (Gemini)" ELSE "Agent 2 (Deepseek)"

\* the label of the entry at (0-based) index i
Label(i) == IF i % 2 = 0 THEN "Agent 1 (Gemini)" ELSE "Agent 2 (Deepseek)"

\* "\n\n".join([f"{label}: {msg}" for i, msg in enumerate(history)])
HistoryText(history) ==
    Join(<<"\n\n">>, [i \in 1..Len(history) |-> <<Label(i - 1), ": ">> \o history[i]])

\* the final-turn test off by one
Instruction_offByOne(turn_number, maxTurns, other) ==
    IF turn_number = maxTurns - 1 THEN ConcludeInstruction(other) ELSE ContinueInstruction

\* the instruction sentence of a follow-up prompt
Instruction(turn_number, maxTurns, other) ==
    IF turn_number = maxTurns THEN ConcludeInstruction(other) ELSE ContinueInstruction

FollowUpPrompt(me, other, history_text, turn_number, maxTurns, t) ==
    <<"You are ", me, ". Review the conversation so far about the task: \"">>
    \o t
    \o <<"\" Conversation history: ">>
    \o history_text
    \o <<" This is turn ">> \o Str(turn_number) \o <<" of ">> \o Str(maxTurns) \o <<". ">>
    \o <<Instruction(turn_number, maxTurns, other)>>
    \o <<" Be concise but insightful. Advance the solution forward meaningfully.">>

generate_follow_up_prompts(conversation_history, turn_number, maxTurns, t) ==
    LET history_text == HistoryText(conversation_history)
    IN  [gemini |-> FollowUpPrompt("Agent 1 (Gemini 2.5 Pro)", "Agent 2", history_text,
                                   turn_number, maxTurns, t),
         groq |-> FollowUpPrompt("Agent 2 (Deepseek Llama 70B)", "Agent 1", history_text,
                                 turn_number, maxTurns, t)]

---------------------------------------------------------------------------
(* Summarizer.                                                             *)

\* a summary prompt that misses the last transcript entry
SummaryPrompt_dropLast(t, conv) ==
    <<"Review this conversation between two AI agents collaborating on the task: \"">>
    \o t
    \o <<"\" Full conversation: ">>
    \o HistoryText(SubSeq(conv, 1, Len(conv) - 1))
    \o <<" Provide: 1. A concise summary 2. The final solution 3. How the collaboration enhanced the result. Format your response as a structured final report.">>

\* the prompt generate_summary passes to gemini_agent
SummaryPrompt(t, conv) ==
    <<"Review this conversation between two AI agents collaborating on the task: \"">>
    \o t
    \o <<"\" Full conversation: ">>
    \o HistoryText(conv)
    \o <<" Provide: 1. A concise summary 2. The final solution 3. How the collaboration enhanced the result. Format your response as a structured final report.">>

---------------------------------------------------------------------------
(* The orchestrator.                                                       *)

Tasks == {<<"Plan a 3-day trip to Kyoto">>}

Call(to, prompt) == [to |-> to, prompt |-> prompt]

\* the call in flight
InFlight == CHOOSE c \in pending : TRUE

\* an entry of the history variable calls
\* (instr: the instruction sentence of a follow-up prompt, the last but one
\* piece of the template)
Logged(client, purpose, k, prompt) ==
    [client |-> client, purpose |-> purpose, turn |-> k,
     instr |-> IF purpose = "turn" /\ k >= 2 THEN prompt[Len(prompt) - 1] ELSE ""]

\* range(2, max_turns): the last turn is not played
LoopTurns_short(maxTurns) == 2..(maxTurns - 1)

\* range(2, max_turns + 1)
LoopTurns(maxTurns) == 2..maxTurns

\* the budget of outcomes other than the plain one
Draw(o) == IF o = "ok" THEN unusual' = unusual
           ELSE unusual < MaxUnusual /\ unusual' = unusual + 1

\* __init__
Init ==
    /\ conversation = <<>>
    /\ pc = "idle"
    /\ task = <<>>
    /\ response = <<>>
    /\ max_turns = 0
    /\ turn = 0
    /\ gemini_prompt = <<>>
    /\ groq_prompt = <<>>
    /\ pending = {}
    /\ result = <<>>
    /\ run = 0
    /\ calls = <<>>
    /\ origin = <<>>
    /\ unusual = 0

\* an exception leaves collaborate
Propagate ==
    /\ pc' = "raised"
    /\ pending' = {}
    /\ UNCHANGED <<conversation, task, response, max_turns, turn, gemini_prompt,
                   groq_prompt, result, run, calls, origin>>

\* collaborate(task) is called: up to the planning call
Collaborate ==
    /\ pc = "idle"
    /\ run < MaxRuns
    /\ \E t \in Tasks :
        /\ task' = t
        /\ pending' = {Call("A", PlannerPrompt(t))}
    /\ pc' = "plan"
    /\ run' = run + 1
    /\ calls' = <<Logged("A", "plan", 0, <<>>)>>
    /\ result' = <<>>
    /\ UNCHANGED <<conversation, response, max_turns, turn, gemini_prompt,
                   groq_prompt, origin, unusual>>

\* the planning call answers (sdk: an outcome of the SDK call): the rest of
\* determine_conversation_length, the initial prompts, Agent 1's first call
PlanStep(sdk) ==
    LET r == gemini_agent(InFlight.prompt, sdk)
        n == determine_conversation_length(r.value)
        p == generate_initial_prompts(task)
    IN  IF r.raised \/ n.raised THEN Propagate
        ELSE /\ response' = r.value
             /\ max_turns' = n.value
             /\ gemini_prompt' = p.gemini
             /\ groq_prompt' = p.groq
             /\ turn' = 1
             /\ pending' = {Call("A", p.gemini)}
             /\ calls' = Append(calls, Logged("A", "turn", 1, p.gemini))
             /\ pc' = "A"
             /\ UNCHANGED <<conversation, task, result, run, origin>>


\* Agent 1's call of the turn answers with outcome o: append, then Agent 2's
\* call
GeminiTurnStep(o) ==
        /\ Draw(o)
        /\ LET r == gemini_agent(InFlight.prompt, GeminiSdk(o))
           IN  IF r.raised THEN Propagate
               ELSE /\ conversation' = Append(conversation, r.value)
                    /\ origin' = Append(origin, [client |-> "A", run |-> run,
                                   turn |-> turn, failed |-> GeminiSdk(o).raised])
                    /\ pending' = {Call("B",
                          IF turn = 1
                          THEN groq_prompt \o <<"\n\nAgent 1 said: ">> \o r.value
                          ELSE groq_prompt)}
                    /\ calls' = Append(calls, Logged("B", "turn", turn, groq_prompt))
                    /\ pc' = "B"
                    /\ UNCHANGED <<task, response, max_turns, turn, gemini_prompt,
                                   groq_prompt, result, run>>

\* Agent 2's call of the turn answers with outcome o: append, then the next
\* turn's prompts and Agent 1's call, or after the last turn the summary call
GroqTurnStep(o) ==
        /\ Draw(o)
        /\ LET r == groq_agent(InFlight.prompt, GroqHttp(o))
               conv == Append(conversation, r.value)
               p == generate_follow_up_prompts(conv, turn + 1, max_turns, task)
           IN  IF r.raised THEN Propagate
               ELSE /\ conversation' = conv
                    /\ origin' = Append(origin, [client |-> "B", run |-> run,
                                   turn |-> turn, failed |-> o \in GroqFailures])
                    /\ IF turn + 1 \in LoopTurns(max_turns)
                       THEN /\ turn' = turn + 1
                            /\ gemini_prompt' = p.gemini
                            /\ groq_prompt' = p.groq
                            /\ pending' = {Call("A", p.gemini)}
                            /\ calls' = Append(calls, Logged("A", "turn", turn + 1, p.gemini))
                            /\ pc' = "A"
                       ELSE /\ pending' = {Call("A", SummaryPrompt(task, conv))}
                            /\ calls' = Append(calls, Logged("A", "summary", 0, <<>>))
                            /\ pc' = "sum"
                            /\ UNCHANGED <<turn, gemini_prompt, groq_prompt>>
                    /\ UNCHANGED <<task, response, max_turns, result, run>>

\* the summary call answers with outcome o: collaborate returns its result
SummaryStep(o) ==
        /\ Draw(o)
        /\ LET r == gemini_agent(InFlight.prompt, GeminiSdk(o))
           IN  IF r.raised THEN Propagate
               ELSE /\ result' = <<[task |-> task,
                                    conversation_turns |-> max_turns,
                                    conversation |-> conversation,
                                    summary |-> r.value]>>
                    /\ pending' = {}
                    /\ pc' = "idle"
                    /\ UNCHANGED <<conversation, task, response, max_turns, turn,
                                   gemini_prompt, groq_prompt, run, calls, origin>>

---------------------------------------------------------------------------
(* Spec: an instance on which collaborate is called up to MaxRuns times;   *)
(* each call of a client succeeds or fails in one way.                     *)

ReusePlannerOutcomes == {"n4", "n1", "raises"}
ReuseGeminiOutcomes == {"ok", "raises"}
ReuseGroqOutcomes == {"ok", "empty_choices"}

PlanReturn ==
    /\ pc = "plan"
    /\ \E o \in ReusePlannerOutcomes : PlanStep(GeminiSdk(o))
    /\ UNCHANGED unusual

GeminiTurnReturn == pc = "A" /\ \E o \in ReuseGeminiOutcomes : GeminiTurnStep(o)

GroqTurnReturn == pc = "B" /\ \E o \in ReuseGroqOutcomes : GroqTurnStep(o)

SummaryReturn == pc = "sum" /\ \E o \in ReuseGeminiOutcomes : SummaryStep(o)

Next ==
    \/ Collaborate
    \/ PlanReturn
    \/ GeminiTurnReturn
    \/ GroqTurnReturn
    \/ SummaryReturn

Spec == Init /\ [][Next]_vars

---------------------------------------------------------------------------
(* SpecRun: the first collaborate call on a fresh instance; each call of a *)
(* client draws from every outcome of GeminiOutcomes / GroqOutcomes.       *)

CollaborateFresh == run = 0 /\ Collaborate

PlanReturnRun ==
    /\ pc = "plan"
    /\ \E o \in PlannerOutcomes : PlanStep(GeminiSdk(o))
    /\ UNCHANGED unusual

GeminiTurnReturnAny == pc = "A" /\ \E o \in GeminiOutcomes : GeminiTurnStep(o)

GroqTurnReturnAny == pc = "B" /\ \E o \in GroqOutcomes : GroqTurnStep(o)

SummaryReturnAny == pc = "sum" /\ \E o \in GeminiOutcomes : SummaryStep(o)

NextRun ==
    \/ CollaborateFresh
    \/ PlanReturnRun
    \/ GeminiTurnReturnAny
    \/ GroqTurnReturnAny
    \/ SummaryReturnAny

SpecRun == Init /\ [][NextRun]_vars

---------------------------------------------------------------------------
(* The Turn Planner on every short answer: the planning call returns any   *)
(* text of at most MaxPlanLen characters of PlanAlphabet, or raises.       *)

PlanAlphabet == {"0", "1", "4", "5", "9", " ", "-", "+", "_", "x"}

PlanTexts == UNION {[1..k -> PlanAlphabet] : k \in 0..MaxPlanLen}

PlanReturnAny ==
    /\ pc = "plan"
    /\ \/ \E s \in PlanTexts : PlanStep(Return(s))
       \/ PlanStep(Raise(<<"503 UNAVAILABLE">>))
    /\ UNCHANGED unusual

NextPlanner ==
    \/ Collaborate
    \/ PlanReturnAny

SpecPlanner == Init /\ [][NextPlanner]_vars

---------------------------------------------------------------------------
(* Properties.                                                             *)

InRun == pc \in {"A", "B", "sum"}
Returned == pc = "idle" /\ result # <<>>
GeminiErrorTag == <<"Gemini Agent Error: ">>
GroqErrorTag == <<"Groq Agent Error: ">>
HasContinue(P) == \E i \in 1..Len(P) : P[i] = ContinueInstruction
HasConclude(P) ==
    \E i \in 1..Len(P) : P[i] \in {ConcludeInstruction("Agent 1"), ConcludeInstruction("Agent 2")}
\* the transcript the prompts of the current follow-up turn were built from
Embedded == IF pc = "B" THEN SubSeq(conversation, 1, Len(conversation) - 1) ELSE conversation
InFollowUp == pc \in {"A", "B"} /\ turn >= 2

\* C1: the turn budget computed from the planning call's answer is in [3,10]:
\* an answer that int() rejects after trimming (a "Gemini Agent Error: ..."
\* string included) gives exactly 5, an answer that parses as n gives n pulled
\* into [3,10] (above 10 gives 10, below 3 gives 3).
C1_TurnBudgetInRange ==
    pc = "A" =>
        /\ max_turns \in 3..10
        /\ LET n == PyInt(response)
           IN  /\ n.raised => max_turns = 5
               /\ ~n.raised => max_turns = (IF n.value > 10 THEN 10
                                            ELSE IF n.value < 3 THEN 3 ELSE n.value)
        /\ StartsWith(response, GeminiErrorTag) => max_turns = 5

\* the planner answered "15" and the budget is 10
C1_Witness == pc = "A" /\ response = <<"1", "5">> /\ max_turns = 10

\* C2: when the turn loop of a collaborate call completes with budget N, the
\* transcript handed to the summarizer and returned in the result has exactly
\* 2N entries, whatever was done on the instance before.
C2_TranscriptLength ==
    /\ pc = "sum" => Len(conversation) = 2 * max_turns
    /\ Returned => Len(result[1].conversation) = 2 * result[1].conversation_turns

\* C3: no client call raises into collaborate, and the transcript entry of a
\* call that failed is that client's tagged error string.
C3_ErrorsAsText ==
    /\ pc # "raised"
    /\ \A i \in 1..Len(conversation) :
          origin[i].failed =>
              StartsWith(conversation[i],
                         IF origin[i].client = "A" THEN GeminiErrorTag ELSE GroqErrorTag)

\* Client B answered {"choices": []} and its error string is the entry of
\* Client B's slot
C3_Witness ==
    \E i \in 1..Len(conversation) :
        /\ origin[i].client = "B"
        /\ origin[i].failed
        /\ i % 2 = 0
        /\ conversation[i] = <<"Groq Agent Error: ", "Unexpected response format - ",
                               "{'choices': []}">>

\* C4: a run makes the summary call exactly once, after the last Agent 2
\* answer of turn N has been appended; the summary prompt embeds the whole
\* transcript in order, the 2N entries of the run included; the summary
\* returned is Client A's text as it came.
C4_SummaryOnceAfterLastTurn ==
    /\ Cardinality({i \in 1..Len(calls) : calls[i].purpose = "summary"})
          = (IF pc = "sum" \/ Returned THEN 1 ELSE 0)
    /\ pc = "sum" =>
          /\ calls[Len(calls)].purpose = "summary"
          /\ Len(conversation) >= 2 * max_turns
          /\ origin[Len(origin)].client = "B"
          /\ origin[Len(origin)].turn = max_turns
          /\ \A i \in 1..(2 * max_turns) :
                origin[Len(origin) - 2 * max_turns + i].run = run
          /\ InFlight.to = "A"
          /\ Contains(InFlight.prompt, HistoryText(conversation))
    /\ Returned =>
          /\ result[1].conversation = conversation
          /\ \E o \in GeminiOutcomes :
                result[1].summary = gemini_agent(<<>>, GeminiSdk(o)).value

\* the summary call of a first run with budget 4 is in flight, 8 entries
C4_Witness == pc = "sum" /\ run = 1 /\ max_turns = 4 /\ Len(conversation) = 8

\* C5 as stated: both follow-up prompts contain the conclusion phrasing and
\* not the continuation phrasing on the final turn, and the continuation
\* phrasing and not the conclusion phrasing on every other turn.
C5_SubstringMatch ==
    InFollowUp =>
        \A P \in {gemini_prompt, groq_prompt} :
            IF turn = max_turns
            THEN HasConclude(P) /\ ~HasContinue(P)
            ELSE HasContinue(P) /\ ~HasConclude(P)

\* C5 amended: the instruction sentence of both follow-up prompts is the
\* conclusion instruction on the final turn and the continuation instruction
\* on every other turn, so each prompt contains the phrasing of its turn; it
\* contains the other phrasing only where the task or the transcript it
\* embeds contains it.  In a run the instruction sentence sent is the
\* conclusion instruction in turn N and in no other turn.
C5_InstructionSentence ==
    /\ InFollowUp =>
          /\ gemini_prompt[Len(gemini_prompt) - 1] =
                (IF turn = max_turns THEN ConcludeInstruction("Agent 2")
                 ELSE ContinueInstruction)
          /\ groq_prompt[Len(groq_prompt) - 1] =
                (IF turn = max_turns THEN ConcludeInstruction("Agent 1")
                 ELSE ContinueInstruction)
          /\ \A P \in {gemini_prompt, groq_prompt} :
                /\ IF turn = max_turns THEN HasConclude(P) ELSE HasContinue(P)
                /\ (IF turn = max_turns THEN HasContinue(P) ELSE HasConclude(P)) =>
                      \/ (IF turn = max_turns THEN HasContinue(task) ELSE HasConclude(task))
                      \/ \E i \in 1..Len(Embedded) :
                            IF turn = max_turns THEN HasContinue(Embedded[i])
                            ELSE HasConclude(Embedded[i])
    /\ InRun \/ Returned =>
          \A i \in 1..Len(calls) :
              (calls[i].purpose = "turn" /\ calls[i].turn >= 2) =>
                  calls[i].instr =
                      (IF calls[i].turn # max_turns THEN ContinueInstruction
                       ELSE IF calls[i].client = "A" THEN ConcludeInstruction("Agent 2")
                       ELSE ConcludeInstruction("Agent 1"))

\* the final turn's prompt to Agent 1 embeds a transcript entry that repeats
\* the continuation phrasing
C5_Witness ==
    pc = "A" /\ turn >= 2 /\ turn = max_turns /\ HasContinue(InFlight.prompt)

\* C6: the transcript a run renders into prompts, hands to the summarizer and
\* returns holds only answers of model calls of that same run.
C6_RunOwnsTranscript ==
    /\ InFollowUp => \A i \in 1..Len(Embedded) : origin[i].run = run
    /\ pc = "sum" \/ Returned => \A i \in 1..Len(conversation) : origin[i].run = run

\* C7 as stated: a non-numeric or out-of-range planner answer gives the
\* default 5.
C7_OutOfRangeToDefault ==
    pc = "A" =>
        LET n == PyInt(response)
        IN  (n.raised \/ n.value < 3 \/ n.value > 10) => max_turns = 5

\* C7 amended: a planner answer that does not parse as an integer gives the
\* default 5; one that parses to a value outside [3,10] gives the nearest
\* bound; determine_conversation_length never raises.
C7_ParseFailureToDefault ==
    /\ pc # "raised"
    /\ pc = "A" =>
          LET n == PyInt(response)
          IN  /\ n.raised => max_turns = 5
              /\ (~n.raised /\ n.value > 10) => max_turns = 10
              /\ (~n.raised /\ n.value < 3) => max_turns = 3

\* the planner answered "x" and the budget is the default
C7_Witness == pc = "A" /\ response = <<"x">> /\ max_turns = 5

\* C8: in a follow-up turn the prompt passed to Client B embeds the transcript
\* including Client A's answer of that same turn.
C8_GroqSeesLatest ==
    (pc = "B" /\ turn >= 2) => Contains(InFlight.prompt, HistoryText(conversation))

\* C9: every even-index entry of the transcript was produced by Client A and
\* every odd-index entry by Client B, so the label rendered for an entry
\* names its producer, also across runs; Client A's answer of a turn is
\* appended before Client B is invoked; at most one model call is in flight.
C9_TurnTaking ==
    /\ Len(origin) = Len(conversation)
    /\ \A i \in 1..Len(conversation) :
          Label(i - 1) = (IF origin[i].client = "A" THEN "Agent 1 (Gemini)"
                          ELSE "Agent 2 (Deepseek)")
    /\ Cardinality(pending) <= 1
    /\ pc = "A" => InFlight.to = "A" /\ Len(conversation) % 2 = 0
    /\ pc = "B" =>
          /\ InFlight.to = "B"
          /\ origin[Len(origin)].client = "A"
          /\ origin[Len(origin)].run = run
          /\ origin[Len(origin)].turn = turn
    /\ pc \in {"idle", "plan", "sum"} => Len(conversation) % 2 = 0

\* Agent 2 is being invoked in a follow-up turn of a second run
C9_Witness == pc = "B" /\ run = 2 /\ turn = 2 /\ Len(conversation) > 2 * turn

\* the model call made at position i of a run with budget n
ExpectedCall(i, n) ==
    IF i = 1 THEN <<"A", "plan", 0>>
    ELSE IF i = 2 * n + 2 THEN <<"A", "summary", 0>>
    ELSE IF i % 2 = 0 THEN <<"A", "turn", i \div 2>>
    ELSE <<"B", "turn", (i - 1) \div 2>>

\* C10: once the planner has returned N, the run invokes Client A once and
\* Client B once in each turn 1..N, in order, whatever the answers are, and
\* the turn count of the result is the N computed before turn 1.
C10_FixedTurnBudget ==
    InRun \/ Returned =>
        /\ max_turns = determine_conversation_length(response).value
        /\ Len(calls) <= 2 * max_turns + 2
        /\ \A i \in 1..Len(calls) :
              <<calls[i].client, calls[i].purpose, calls[i].turn>>
                  = ExpectedCall(i, max_turns)
        /\ (pc = "sum" \/ Returned) => Len(calls) = 2 * max_turns + 2
        /\ Returned =>
              /\ result[1].conversation_turns = max_turns
              /\ \A k \in 1..max_turns :
                    \E i \in 1..Len(origin) :
                        origin[i].run = run /\ origin[i].turn = k

\* a run of budget 3 has returned although one of its calls failed
C10_Witness ==
    /\ Returned
    /\ max_turns = 3
    /\ \E i \in 1..Len(origin) : origin[i].run = run /\ origin[i].failed

====
